---- MODULE Spec2Model ----
(***************************************************************************)
(* Model of the scoring engine of the Responsible AI Governance Readiness  *)
(* Assessment: app/questions.py (catalog) and app/scoring.py               *)
(* (get_category_weights, compute_scores, classify_band,                   *)
(* generate_recommendations), and of the history of assessments that       *)
(* app/app.py keeps in docs/assessments.csv (store_assessment, and the      *)
(* change since the last assessment shown by main and by build_pdf_report  *)
(* of app/pdf_report.py).                                                  *)
(*                                                                         *)
(* Representation.                                                         *)
(*  - A Python float is an exact rational [n |-> Int, d |-> Nat \ {0}] in  *)
(*    lowest terms, so equal numbers are equal records.  Rounding of the   *)
(*    IEEE doubles is not modelled.                                        *)
(*  - A Python str that the code searches (org_type, industry, keywords)   *)
(*    is a sequence of one-character strings; None is the value None.      *)
(*  - A dict is a function; a dict with some keys missing is a function    *)
(*    whose DOMAIN is the set of keys present.                             *)
(*  - A local variable that is assigned once and read several times is     *)
(*    bound by "v \in {expression}", which evaluates the expression once.  *)
(***************************************************************************)
EXTENDS Integers, Sequences, FiniteSets

VARIABLES
    pc,               \* which function of the engine was called last
    responses,        \* argument of compute_scores: question id -> answer
    org_type,         \* argument: organisation type (text or None)
    industry,         \* argument: sector (text or None)
    overall_score,    \* argument of classify_band
    weights,          \* value returned by get_category_weights
    overall,          \* compute_scores: overall score
    category_scores,  \* compute_scores: category -> score
    band_info,        \* compute_scores / classify_band: <<label, description>>
    rec_input,        \* argument of generate_recommendations
    recs,             \* value returned by generate_recommendations
    assessments_csv,  \* the file docs/assessments.csv
    clock,            \* the next value of datetime.utcnow()
    session,          \* per browser session: the position in main, its locals
    log               \* history variable: the assessments submitted, in order

\* the variables of the calls of the scoring engine
evars ==
    <<pc, responses, org_type, industry, overall_score, weights, overall,
      category_scores, band_info, rec_input, recs>>

\* the variables of the application and its history file
avars ==
    <<assessments_csv, clock, session, log>>

vars ==
    <<evars, avars>>

-----------------------------------------------------------------------------
(* Bounds of the exploration *)

\* compute_scores is explored on every response set with at most this many
\* answered questions (and on the complete profiles of ProfileResponses)
MaxAnswered ==
    2

\* classify_band is explored on scores from -ScoreMargin to 100 + ScoreMargin
ScoreMargin ==
    10

\* the application is explored up to this many submitted assessments
MaxAssessments ==
    3

-----------------------------------------------------------------------------
(* Floats as exact rationals *)

Abs(x) ==
    IF x < 0 THEN -x ELSE x

RECURSIVE GCD(_, _)
GCD(a, b) ==
    IF b = 0 THEN a ELSE GCD(b, a % b)

\* the rational n/d (d # 0) in lowest terms with a positive denominator
Rat(n, d) ==
    LET g == GCD(Abs(n), Abs(d))
        s == IF d < 0 THEN -1 ELSE 1
    IN  [n |-> (s * n) \div g, d |-> (s * d) \div g]

Num(k) ==
    [n |-> k, d |-> 1]

RatAdd(a, b) ==
    Rat(a.n * b.d + b.n * a.d, a.d * b.d)

RatMul(a, b) ==
    Rat(a.n * b.n, a.d * b.d)

\* the value that stands for a raised ZeroDivisionError
ZeroDivisionError ==
    [n |-> 0, d |-> 0]

\* a / b; Python raises ZeroDivisionError when b = 0
RatDiv(a, b) ==
    IF b.n = 0 THEN ZeroDivisionError ELSE Rat(a.n * b.d, a.d * b.n)

\* a - b
RatSub(a, b) ==
    Rat(a.n * b.d - b.n * a.d, a.d * b.d)

RatLeq(a, b) ==
    a.n * b.d <= b.n * a.d

RatLt(a, b) ==
    a.n * b.d < b.n * a.d

RatGeq(a, b) ==
    RatLeq(b, a)

\* a decimal literal with two places: Hundredths(30) is 0.30
Hundredths(k) ==
    Rat(k, 100)

-----------------------------------------------------------------------------
(* Python strings *)

None ==
    <<"None">>

UpperCase ==
    <<"A", "B", "C", "D", "E", "F", "G", "H", "I", "J", "K", "L", "M",
      "N", "O", "P", "Q", "R", "S", "T", "U", "V", "W", "X", "Y", "Z">>

LowerCase ==
    <<"a", "b", "c", "d", "e", "f", "g", "h", "i", "j", "k", "l", "m",
      "n", "o", "p", "q", "r", "s", "t", "u", "v", "w", "x", "y", "z">>

\* str.lower() on one character
LowerChar(c) ==
    IF \E i \in 1..Len(UpperCase) : UpperCase[i] = c
    THEN LowerCase[CHOOSE i \in 1..Len(UpperCase) : UpperCase[i] = c]
    ELSE c

\* str.lower()
lower(s) ==
    [i \in 1..Len(s) |-> LowerChar(s[i])]

\* (x or ""): None and the empty string both give ""
OrEmpty(x) ==
    IF x = None \/ x = <<>> THEN <<>> ELSE x

\* k in s (substring test)
Contains(k, s) ==
    \E i \in 1..(Len(s) - Len(k) + 1) : SubSeq(s, i, i + Len(k) - 1) = k

\* any(k in s for k in keywords)
AnyIn(keywords, s) ==
    \E i \in 1..Len(keywords) : Contains(keywords[i], s)

-----------------------------------------------------------------------------
(* app/questions.py *)

CATEGORIES ==
    << "Governance & Policy",
       "Data Privacy & Protection",
       "Technical Controls & Monitoring",
       "Ethics & Societal Impact",
       "Organisational Readiness & Capability" >>

LIKERT_OPTIONS ==
    [label \in {"Not at all", "Limited", "Developing", "Established",
                "Best practice"} |->
        CASE label = "Not at all"    -> 1
          [] label = "Limited"       -> 2
          [] label = "Developing"    -> 3
          [] label = "Established"   -> 4
          [] label = "Best practice" -> 5]

YESNO_OPTIONS ==
    [label \in {"No", "Yes"} |-> IF label = "No" THEN 0 ELSE 1]

Question(id, category, qtype) ==
    [id |-> id, category |-> category, qtype |-> qtype]

\* QUESTIONS with the last question filed under a category that CATEGORIES
\* does not have
QUESTIONS_Miscategorised ==
    << Question("gov_policy",       CATEGORIES[1], "yesno"),
       Question("gov_owner",        CATEGORIES[1], "yesno"),
       Question("gov_vendor",       CATEGORIES[1], "likert"),
       Question("dp_minimisation",  CATEGORIES[2], "likert"),
       Question("dp_dpia",          CATEGORIES[2], "yesno"),
       Question("tech_versioning",  CATEGORIES[3], "likert"),
       Question("tech_monitoring",  CATEGORIES[3], "likert"),
       Question("eth_impact",       CATEGORIES[4], "likert"),
       Question("eth_stakeholders", CATEGORIES[4], "likert"),
       Question("org_training",     CATEGORIES[5], "likert"),
       Question("org_roles",        "Security", "yesno") >>

QUESTIONS ==
    << Question("gov_policy",       CATEGORIES[1], "yesno"),
       Question("gov_owner",        CATEGORIES[1], "yesno"),
       Question("gov_vendor",       CATEGORIES[1], "likert"),
       Question("dp_minimisation",  CATEGORIES[2], "likert"),
       Question("dp_dpia",          CATEGORIES[2], "yesno"),
       Question("tech_versioning",  CATEGORIES[3], "likert"),
       Question("tech_monitoring",  CATEGORIES[3], "likert"),
       Question("eth_impact",       CATEGORIES[4], "likert"),
       Question("eth_stakeholders", CATEGORIES[4], "likert"),
       Question("org_training",     CATEGORIES[5], "likert"),
       Question("org_roles",        CATEGORIES[5], "yesno") >>

-----------------------------------------------------------------------------
(* app/scoring.py: get_category_weights *)

PublicKeywords ==
    << <<"p", "u", "b", "l", "i", "c">>,
       <<"g", "o", "v", "e", "r", "n", "m", "e", "n", "t">>,
       <<"g", "o", "v">>,
       <<"n", "g", "o">>,
       <<"n", "o", "n", "-", "p", "r", "o", "f", "i", "t">>,
       <<"c", "h", "a", "r", "i", "t", "y">> >>

\* StartupKeywords spelled with capitals, which a lower-cased text never
\* contains
StartupKeywordsCapitalised ==
    << <<"S", "t", "a", "r", "t", "u", "p">>,
       <<"S", "c", "a", "l", "e", "u", "p">>,
       <<"S", "c", "a", "l", "e", "-", "u", "p">>,
       <<"H", "i", "g", "h", " ", "g", "r", "o", "w", "t", "h">> >>

StartupKeywords ==
    << <<"s", "t", "a", "r", "t", "u", "p">>,
       <<"s", "c", "a", "l", "e", "u", "p">>,
       <<"s", "c", "a", "l", "e", "-", "u", "p">>,
       <<"h", "i", "g", "h", " ", "g", "r", "o", "w", "t", "h">> >>

HealthKeywords ==
    << <<"h", "e", "a", "l", "t", "h">>,
       <<"l", "i", "f", "e", " ", "s", "c", "i", "e", "n", "c", "e">>,
       <<"p", "h", "a", "r", "m", "a">> >>

FinanceKeywords ==
    << <<"f", "i", "n", "a", "n", "c">>,
       <<"b", "a", "n", "k">>,
       <<"i", "n", "s", "u", "r">>,
       <<"a", "s", "s", "e", "t">> >>

RetailKeywords ==
    << <<"r", "e", "t", "a", "i", "l">>,
       <<"c", "o", "m", "m", "e", "r", "c", "e">>,
       <<"e", "-", "c", "o", "m", "m", "e", "r", "c", "e">>,
       <<"e", "c", "o", "m", "m", "e", "r", "c", "e">> >>

EducationKeywords ==
    << <<"e", "d", "u", "c", "a", "t">>,
       <<"s", "c", "h", "o", "o", "l">>,
       <<"u", "n", "i", "v", "e", "r", "s", "i", "t", "y">>,
       <<"c", "o", "l", "l", "e", "g", "e">> >>

TechKeywords ==
    << <<"t", "e", "c", "h">>,
       <<"s", "o", "f", "t", "w", "a", "r", "e">>,
       <<"a", "i">>,
       <<"d", "i", "g", "i", "t", "a", "l">> >>

\* the keyword groups of the organisation type, in the order of the code
TypeGroups ==
    <<PublicKeywords, StartupKeywords>>

\* the keyword groups of the sector, in the order of the code
SectorGroups ==
    <<HealthKeywords, FinanceKeywords, RetailKeywords, EducationKeywords,
      TechKeywords>>

\* a signed adjustment, in hundredths, of the five categories in the order
\* Governance, Privacy, Technical, Ethics, Organisational
Delta(g, p, t, e, o) ==
    [c \in {CATEGORIES[i] : i \in 1..5} |->
        CASE c = CATEGORIES[1] -> Hundredths(g)
          [] c = CATEGORIES[2] -> Hundredths(p)
          [] c = CATEGORIES[3] -> Hundredths(t)
          [] c = CATEGORIES[4] -> Hundredths(e)
          [] c = CATEGORIES[5] -> Hundredths(o)]

\* BaseWeights with the weights of the last two categories exchanged
BaseWeightsSwapped ==
    Delta(30, 25, 20, 10, 15)

\* the dict literal "weights" at the start of get_category_weights
BaseWeights ==
    Delta(30, 25, 20, 15, 10)

\* TypeDeltas with the public-sector reduction of Organisational one
\* hundredth larger
TypeDeltasSteeper ==
    << Delta( 5,  5, -5,  0, -6),
       Delta(-3,  0,  5, -2,  5) >>

\* the += / -= statements under the two organisation-type tests
TypeDeltas ==
    << Delta( 5,  5, -5,  0, -5),     \* public sector / government / NGO
       Delta(-3,  0,  5, -2,  5) >>   \* startup / scaleup

\* SectorDeltas with the healthcare reduction of Organisational one
\* hundredth larger
SectorDeltasSteeper ==
    << Delta( 0,  6, -5,  4, -6),
       Delta( 5,  5, -5, -5,  0),
       Delta(-5,  0,  6, -5,  4),
       Delta( 4, -5, -5,  4,  2),
       Delta( 3, -5,  5, -3,  0) >>

\* the += / -= statements under the five sector tests
SectorDeltas ==
    << Delta( 0,  6, -5,  4, -5),     \* healthcare / life sciences
       Delta( 5,  5, -5, -5,  0),     \* financial services
       Delta(-5,  0,  6, -5,  4),     \* retail / e-commerce
       Delta( 4, -5, -5,  4,  2),     \* education
       Delta( 3, -5,  5, -3,  0) >>   \* technology / AI / software

\* weights[c] += delta[c] for every category
Adjust(w, delta) ==
    [c \in DOMAIN w |-> RatAdd(w[c], delta[c])]

\* the sequence of if-statements over the groups gs, applied to text
RECURSIVE ApplyGroups(_, _, _, _, _)
ApplyGroups(w, gs, deltas, text, i) ==
    IF i > Len(gs) THEN w
    ELSE ApplyGroups(IF AnyIn(gs[i], text) THEN Adjust(w, deltas[i]) ELSE w,
                     gs, deltas, text, i + 1)

\* the local dict weights just before the normalisation
AdjustedWeights(t_arg, ind_arg) ==
    LET t   == lower(OrEmpty(t_arg))
        ind == lower(OrEmpty(ind_arg))
        w1  == ApplyGroups(BaseWeights, TypeGroups, TypeDeltas, t, 1)
    IN  ApplyGroups(w1, SectorGroups, SectorDeltas, ind, 1)

\* sum(d.values()) over the keys of CATEGORIES, in order
RECURSIVE SumValues(_, _)
SumValues(d, i) ==
    IF i > Len(CATEGORIES) THEN Num(0)
    ELSE RatAdd(d[CATEGORIES[i]], SumValues(d, i + 1))

\* Normalise that always takes the equal-shares branch
NormaliseEqualShares(w, total) ==
    [c \in {CATEGORIES[i] : i \in 1..Len(CATEGORIES)} |->
        RatDiv(Num(1), Num(Len(CATEGORIES)))]

\* Normalise without the division by the sum
NormaliseSkipped(w, total) ==
    w

\* the normalisation of the adjusted weights w whose sum is total
Normalise(w, total) ==
    IF RatLeq(total, Num(0))
    THEN [c \in {CATEGORIES[i] : i \in 1..Len(CATEGORIES)} |->
            RatDiv(Num(1), Num(Len(CATEGORIES)))]
    ELSE [k \in DOMAIN w |-> RatDiv(w[k], total)]

get_category_weights(t_arg, ind_arg) ==
    CHOOSE ret \in {Normalise(w, SumValues(w, 1)) :
                      w \in {AdjustedWeights(t_arg, ind_arg)}} : TRUE

-----------------------------------------------------------------------------
(* app/scoring.py: classify_band *)

\* classify_band that tests the lowest threshold first
classify_band_reordered(score) ==
    IF RatGeq(score, Num(40))
    THEN <<"Emerging",
           "Foundational elements in place but significant weaknesses.">>
    ELSE IF RatGeq(score, Num(60))
    THEN <<"Near Ready", "Solid foundation with clear areas to strengthen.">>
    ELSE IF RatGeq(score, Num(80))
    THEN <<"AI Ready", "Strong governance and controls; low regulatory risk.">>
    ELSE <<"High Risk", "Limited governance; urgent remediation required.">>

\* classify_band with > in place of >=
classify_band_exclusive(score) ==
    IF RatLt(Num(80), score)
    THEN <<"AI Ready", "Strong governance and controls; low regulatory risk.">>
    ELSE IF RatLt(Num(60), score)
    THEN <<"Near Ready", "Solid foundation with clear areas to strengthen.">>
    ELSE IF RatLt(Num(40), score)
    THEN <<"Emerging",
           "Foundational elements in place but significant weaknesses.">>
    ELSE <<"High Risk", "Limited governance; urgent remediation required.">>

classify_band(score) ==
    IF RatGeq(score, Num(80))
    THEN <<"AI Ready", "Strong governance and controls; low regulatory risk.">>
    ELSE IF RatGeq(score, Num(60))
    THEN <<"Near Ready", "Solid foundation with clear areas to strengthen.">>
    ELSE IF RatGeq(score, Num(40))
    THEN <<"Emerging",
           "Foundational elements in place but significant weaknesses.">>
    ELSE <<"High Risk", "Limited governance; urgent remediation required.">>

-----------------------------------------------------------------------------
(* app/scoring.py: compute_scores *)

\* the loop "for q in QUESTIONS" from question i on: the per-category totals
\* and counts of the answered questions
RECURSIVE Aggregate(_, _, _, _)
Aggregate(resp, i, totals, counts) ==
    IF i > Len(QUESTIONS) THEN [totals |-> totals, counts |-> counts]
    ELSE LET q == QUESTIONS[i]
         IN  IF q.id \in DOMAIN resp
             THEN Aggregate(resp, i + 1,
                    [totals EXCEPT ![q.category] = RatAdd(@, Num(resp[q.id]))],
                    [counts EXCEPT ![q.category] = @ + 1])
             ELSE Aggregate(resp, i + 1, totals, counts)

\* AverageScores that divides by the number of questions of the category
\* in place of the number of answered ones
AverageOverCatalog(totals, counts) ==
    [cat \in {CATEGORIES[i] : i \in 1..Len(CATEGORIES)} |->
        IF counts[cat] > 0
        THEN LET size == Cardinality({i \in 1..Len(QUESTIONS) :
                                        QUESTIONS[i].category = cat})
                 avg  == RatDiv(totals[cat], Num(size))
             IN  RatMul(RatDiv(avg, Num(4)), Num(100))
        ELSE Num(0)]

\* AverageScores that gives a category without answers the middle score
AverageScoresNeutral(totals, counts) ==
    [cat \in {CATEGORIES[i] : i \in 1..Len(CATEGORIES)} |->
        IF counts[cat] > 0
        THEN LET avg == RatDiv(totals[cat], Num(counts[cat]))
             IN  RatMul(RatDiv(avg, Num(4)), Num(100))
        ELSE Num(50)]

\* the loop "for cat in CATEGORIES" that averages and scales to 0-100
AverageScores(totals, counts) ==
    [cat \in {CATEGORIES[i] : i \in 1..Len(CATEGORIES)} |->
        IF counts[cat] > 0
        THEN LET avg == RatDiv(totals[cat], Num(counts[cat]))
             IN  RatMul(RatDiv(avg, Num(4)), Num(100))
        ELSE Num(0)]

\* weights.get(cat, 0.0)
DictGet(d, k, default) ==
    IF k \in DOMAIN d THEN d[k] ELSE default

\* the loop "for cat in CATEGORIES" that accumulates the weighted score
RECURSIVE WeightedOverall(_, _, _, _)
WeightedOverall(scores, w, i, acc) ==
    IF i > Len(CATEGORIES) THEN acc
    ELSE WeightedOverall(scores, w, i + 1,
            RatAdd(acc, RatMul(scores[CATEGORIES[i]],
                               DictGet(w, CATEGORIES[i], Num(0)))))

\* the adjusted weights used without the normalisation
ScoringWeightsUnnormalised(t_arg, ind_arg) ==
    AdjustedWeights(t_arg, ind_arg)

\* the static CATEGORY_WEIGHTS of app/config.py in place of the resolved ones
ScoringWeightsStatic(t_arg, ind_arg) ==
    BaseWeights

\* the weights compute_scores uses
ScoringWeights(t_arg, ind_arg) ==
    get_category_weights(t_arg, ind_arg)

\* the end of compute_scores: the weighted overall score, its band and the
\* returned tuple <<overall, category_scores, <<band_label, band_desc>> >>
ScoreAndClassify(scores, w) ==
    CHOOSE ret \in {<<ov, scores, classify_band(ov)>> :
                      ov \in {WeightedOverall(scores, w, 1, Num(0))}} : TRUE

compute_scores(resp, t_arg, ind_arg) ==
    LET cats == {CATEGORIES[i] : i \in 1..Len(CATEGORIES)}
        agg  == Aggregate(resp, 1, [cat \in cats |-> Num(0)],
                          [cat \in cats |-> 0])
    IN  CHOOSE ret \in {ScoreAndClassify(scores, w) :
                          scores \in {AverageScores(agg.totals, agg.counts)},
                          w \in {ScoringWeights(t_arg, ind_arg)}} : TRUE

-----------------------------------------------------------------------------
(* app/scoring.py: generate_recommendations *)

MaintainText ==
    "Maintain current practices and document them clearly for internal and external audits."

StrengthenText ==
    "Strengthen governance and monitoring processes to move from 'near ready' to 'ready'."

PrioritiseText ==
    "Prioritise building basic policies, controls, and clear ownership in this area."

\* the source writes the range "3-6" with an en dash
HighRiskText ==
    "Treat this as a high-risk area and establish minimum compliant processes in the next 3-6 months."

\* generate_recommendations with > in place of >=
generate_recommendations_exclusive(scores) ==
    [cat \in DOMAIN scores |->
        IF RatLt(Num(80), scores[cat]) THEN MaintainText
        ELSE IF RatLt(Num(60), scores[cat]) THEN StrengthenText
        ELSE IF RatLt(Num(40), scores[cat]) THEN PrioritiseText
        ELSE HighRiskText]

\* one entry per item of category_scores.items()
generate_recommendations(scores) ==
    [cat \in DOMAIN scores |->
        IF RatGeq(scores[cat], Num(80)) THEN MaintainText
        ELSE IF RatGeq(scores[cat], Num(60)) THEN StrengthenText
        ELSE IF RatGeq(scores[cat], Num(40)) THEN PrioritiseText
        ELSE HighRiskText]

-----------------------------------------------------------------------------
(* Inputs of the exploration *)

\* the options of the "Organisation type" select box
OrgTypeOptions ==
    << <<"P", "r", "i", "v", "a", "t", "e", " ", "c", "o", "m", "p", "a", "n",
         "y">>,
       <<"P", "u", "b", "l", "i", "c", " ", "s", "e", "c", "t", "o", "r", " ",
         "b", "o", "d", "y">>,
       <<"N", "o", "n", "-", "p", "r", "o", "f", "i", "t", " ", "/", " ", "N",
         "G", "O">>,
       <<"S", "t", "a", "r", "t", "u", "p", " ", "/", " ", "s", "c", "a", "l",
         "e", "u", "p">>,
       <<"E", "d", "u", "c", "a", "t", "i", "o", "n", "a", "l", " ", "i", "n",
         "s", "t", "i", "t", "u", "t", "i", "o", "n">>,
       <<"O", "t", "h", "e", "r", " ", "/", " ", "n", "o", "t", " ", "s", "p",
         "e", "c", "i", "f", "i", "e", "d">> >>

\* the options of the "Primary sector" select box
IndustryOptions ==
    << <<"H", "e", "a", "l", "t", "h", "c", "a", "r", "e">>,
       <<"F", "i", "n", "a", "n", "c", "i", "a", "l", " ", "s", "e", "r", "v",
         "i", "c", "e", "s">>,
       <<"P", "u", "b", "l", "i", "c", " ", "a", "d", "m", "i", "n", "i", "s",
         "t", "r", "a", "t", "i", "o", "n">>,
       <<"E", "d", "u", "c", "a", "t", "i", "o", "n">>,
       <<"R", "e", "t", "a", "i", "l", " ", "/", " ", "e", "-", "c", "o", "m",
         "m", "e", "r", "c", "e">>,
       <<"T", "e", "c", "h", "n", "o", "l", "o", "g", "y">>,
       <<"M", "e", "d", "i", "a", " ", "/", " ", "c", "u", "l", "t", "u", "r",
         "e">>,
       <<"O", "t", "h", "e", "r", " ", "/", " ", "m", "i", "x", "e", "d">> >>

\* free text that matches both organisation-type groups: "NGO scale-up"
NgoScaleUp ==
    <<"N", "G", "O", " ", "s", "c", "a", "l", "e", "-", "u", "p">>

\* free text that matches no group: "Acme Ltd"
AcmeLtd ==
    <<"A", "c", "m", "e", " ", "L", "t", "d">>

\* "Startup", the organisation type of the weight-resolver example
StartupText ==
    <<"S", "t", "a", "r", "t", "u", "p">>

\* one word per sector group, in the order of SectorGroups
SectorWords ==
    << <<"h", "e", "a", "l", "t", "h">>,
       <<"b", "a", "n", "k">>,
       <<"c", "o", "m", "m", "e", "r", "c", "e">>,
       <<"s", "c", "h", "o", "o", "l">>,
       <<"s", "o", "f", "t", "w", "a", "r", "e">> >>

\* the words of SectorWords whose index is in S, each followed by a space
RECURSIVE SectorText(_, _)
SectorText(S, i) ==
    IF i > Len(SectorWords) THEN <<>>
    ELSE (IF i \in S THEN SectorWords[i] \o <<" ">> ELSE <<>>)
         \o SectorText(S, i + 1)

OrgTypeInputs ==
    {None, <<>>, NgoScaleUp, AcmeLtd, StartupText}
        \cup {OrgTypeOptions[i] : i \in 1..Len(OrgTypeOptions)}

IndustryInputs ==
    {None, AcmeLtd}
        \cup {IndustryOptions[i] : i \in 1..Len(IndustryOptions)}
        \cup {SectorText(S, 1) : S \in SUBSET (1..Len(SectorWords))}

QuestionIds ==
    {QUESTIONS[i].id : i \in 1..Len(QUESTIONS)}

QuestionOf(id) ==
    QUESTIONS[CHOOSE i \in 1..Len(QUESTIONS) : QUESTIONS[i].id = id]

\* the values the form can store for a question
AnswerDomain(id) ==
    IF QuestionOf(id).qtype = "likert"
    THEN {LIKERT_OPTIONS[l] : l \in DOMAIN LIKERT_OPTIONS}
    ELSE {YESNO_OPTIONS[l] : l \in DOMAIN YESNO_OPTIONS}

\* every response set with in-domain answers on the questions of D
ResponsesOn(D) ==
    {r \in [D -> 0..5] : \A id \in D : r[id] \in AnswerDomain(id)}

\* every response set with at most MaxAnswered answers
BoundedResponses ==
    UNION {ResponsesOn(D) :
             D \in {S \in SUBSET QuestionIds : Cardinality(S) <= MaxAnswered}}

\* every graded question answered with level and every boolean one with yn
Complete(level, yn) ==
    [id \in QuestionIds |->
        IF QuestionOf(id).qtype = "likert" THEN level ELSE yn]

\* only the graded questions answered, each with level
GradedOnly(level) ==
    [id \in {x \in QuestionIds : QuestionOf(x).qtype = "likert"} |-> level]

ProfileResponses ==
    {Complete(level, yn) : level \in 1..5, yn \in 0..1}
        \cup {GradedOnly(level) : level \in 1..5}
        \cup {<<>>}

\* the organisation profiles the bounded response sets are scored under
ProfilePairs ==
    { <<None, None>>,
      <<OrgTypeOptions[4], IndustryOptions[1]>>,
      <<OrgTypeOptions[2], IndustryOptions[2]>>,
      <<OrgTypeOptions[1], IndustryOptions[5]>> }

ScoreInputs ==
    {<<r, p[1], p[2]>> : r \in BoundedResponses, p \in ProfilePairs}
        \cup (ProfileResponses \X OrgTypeInputs \X IndustryInputs)

\* every whole score of the range and its neighbours one thousandth away
ClassifyInputs ==
    {Rat(1000 * k + e, 1000) :
        k \in (0 - ScoreMargin)..(100 + ScoreMargin), e \in {-1, 0, 1}}

\* the scores at each threshold of generate_recommendations and one
\* thousandth below it
RecScores ==
    {Rat(1000 * k + e, 1000) : k \in {40, 60, 80}, e \in {-1, 0}}

\* category-score maps: every map of the five categories to RecScores, and
\* maps with a key that is not a category
RecInputs ==
    [{CATEGORIES[i] : i \in 1..Len(CATEGORIES)} -> RecScores]
        \cup {[k \in {"Governance"} |-> x] : x \in RecScores}
        \cup {[k \in {CATEGORIES[1], "Security"} |-> x] : x \in RecScores}

\* the browser sessions that run main
Sessions ==
    {"s1", "s2"}

\* what is typed in "Contact email": an address, a text that read_csv takes
\* for a missing value, and nothing
Emails ==
    {"a@x.org", "n/a", ""}

\* what is typed in "Organisation name"
FormOrgName ==
    "Acme Health"

\* the questionnaire as the form first shows it (every slider on
\* "Developing", every radio on its first option), and with every answer at
\* its highest option
FormResponses ==
    {Complete(LIKERT_OPTIONS["Developing"], 0),
     Complete(LIKERT_OPTIONS["Best practice"], 1)}

\* the select boxes of the form as it first shows them
FormOrgType ==
    OrgTypeOptions[4]

FormIndustry ==
    IndustryOptions[1]

\* the locals of main in a session in which the button was not pressed yet
FreshSession ==
    [pc        |-> "form",
     email     |-> "",
     timestamp |-> 0,
     overall   |-> Num(0),
     band      |-> "",
     band_colour |-> "",
     df_all    |-> <<>>,
     pdf_delta |-> <<>>,
     section   |-> FALSE,
     delta     |-> <<>>]

-----------------------------------------------------------------------------
(* The engine as a state machine: one call of one function per behaviour,  *)
(* or compute_scores followed by generate_recommendations as in main       *)

Init ==
    /\ pc = "idle"
    /\ responses = <<>>
    /\ org_type = None
    /\ industry = None
    /\ overall_score = Num(0)
    /\ weights = <<>>
    /\ overall = Num(0)
    /\ category_scores = <<>>
    /\ band_info = <<>>
    /\ rec_input = <<>>
    /\ recs = <<>>
    /\ assessments_csv = [exists |-> FALSE, rows |-> <<>>]
    /\ clock = 1
    /\ session = [s \in Sessions |-> FreshSession]
    /\ log = <<>>

GetCategoryWeights ==
    /\ pc = "idle"
    /\ \E t \in OrgTypeInputs, s \in IndustryInputs :
          /\ org_type' = t
          /\ industry' = s
          /\ weights' = get_category_weights(t, s)
    /\ pc' = "get_category_weights"
    /\ UNCHANGED <<responses, overall_score, overall, category_scores,
                   band_info, rec_input, recs>>
    /\ UNCHANGED avars

ClassifyBand ==
    /\ pc = "idle"
    /\ \E s \in ClassifyInputs :
          /\ overall_score' = s
          /\ band_info' = classify_band(s)
    /\ pc' = "classify_band"
    /\ UNCHANGED <<responses, org_type, industry, weights, overall,
                   category_scores, rec_input, recs>>
    /\ UNCHANGED avars

ComputeScores ==
    /\ pc = "idle"
    /\ \E in \in ScoreInputs :
          \E ret \in {compute_scores(in[1], in[2], in[3])} :
              /\ responses' = in[1]
              /\ org_type' = in[2]
              /\ industry' = in[3]
              /\ overall' = ret[1]
              /\ category_scores' = ret[2]
              /\ band_info' = ret[3]
    /\ pc' = "compute_scores"
    /\ UNCHANGED <<overall_score, weights, rec_input, recs>>
    /\ UNCHANGED avars

\* a call of generate_recommendations on a category-score map
GenerateRecommendations ==
    /\ pc = "idle"
    /\ \E scores \in RecInputs :
          /\ rec_input' = scores
          /\ recs' = generate_recommendations(scores)
    /\ pc' = "generate_recommendations"
    /\ UNCHANGED <<responses, org_type, industry, overall_score, weights,
                   overall, category_scores, band_info>>
    /\ UNCHANGED avars

\* RecommendAfterScoring with a generate_recommendations that rounds each
\* score of the map it is given down to the threshold it reached
RecommendAfterScoringInPlace ==
    /\ pc = "compute_scores"
    /\ rec_input' = category_scores
    /\ recs' = generate_recommendations(category_scores)
    /\ category_scores' =
           [cat \in DOMAIN category_scores |->
               IF RatGeq(category_scores[cat], Num(80)) THEN Num(80)
               ELSE IF RatGeq(category_scores[cat], Num(60)) THEN Num(60)
               ELSE IF RatGeq(category_scores[cat], Num(40)) THEN Num(40)
               ELSE Num(0)]
    /\ pc' = "recommended"
    /\ UNCHANGED <<responses, org_type, industry, overall_score, weights,
                   overall, band_info>>
    /\ UNCHANGED avars

\* main: recs = generate_recommendations(category_scores) on the scores that
\* compute_scores has just returned
RecommendAfterScoring ==
    /\ pc = "compute_scores"
    /\ rec_input' = category_scores
    /\ recs' = generate_recommendations(category_scores)
    /\ pc' = "recommended"
    /\ UNCHANGED <<responses, org_type, industry, overall_score, weights,
                   overall, category_scores, band_info>>
    /\ UNCHANGED avars

Next ==
    \/ GetCategoryWeights
    \/ ClassifyBand
    \/ ComputeScores
    \/ GenerateRecommendations
    \/ RecommendAfterScoring

Spec ==
    Init /\ [][Next]_vars

-----------------------------------------------------------------------------
(* app/app.py: the history of assessments in docs/assessments.csv *)

(* A record of the history keeps the columns that the history code reads:  *)
(* timestamp, org_name, email, overall_score and band.  The columns        *)
(* org_type, industry, country and cat_* are written and displayed but     *)
(* never filtered, sorted or subtracted, and are left out; so are          *)
(* store_contact and docs/contacts.csv.  A timestamp is the value of       *)
(* datetime.utcnow(), a natural number: isoformat() gives strings whose    *)
(* order is the order of the times, and the clock is taken as strictly     *)
(* increasing.  A score is written with repr and parsed back to the same   *)
(* float, so its cell is the number itself.                                *)

\* the float nan that pandas puts in a cell without a value
NaN ==
    "nan (missing value)"

\* the texts that pandas.read_csv reads as a missing value by default
NaStrings ==
    {"", "#N/A", "#N/A N/A", "#NA", "-1.#IND", "-1.#QNAN", "-NaN", "-nan",
     "1.#IND", "1.#QNAN", "<NA>", "N/A", "NA", "NULL", "NaN", "None", "n/a",
     "nan", "null"}

\* pandas.read_csv on one text cell
ReadCell(text) ==
    IF text \in NaStrings THEN NaN ELSE text

\* DataFrame.to_csv on one text cell: a missing value is written empty
WriteCell(value) ==
    IF value = NaN THEN "" ELSE value

\* pandas.read_csv(assessments_path): the DataFrame of the file's records
read_csv(file) ==
    [i \in 1..Len(file.rows) |->
        [file.rows[i] EXCEPT !.org_name = ReadCell(@),
                             !.email = ReadCell(@),
                             !.band = ReadCell(@)]]

\* df.to_csv(assessments_path, index=False): the file that holds df
to_csv(df) ==
    [exists |-> TRUE,
     rows   |-> [i \in 1..Len(df) |->
                    [df[i] EXCEPT !.org_name = WriteCell(@),
                                  !.email = WriteCell(@),
                                  !.band = WriteCell(@)]]]

\* df[df[column] == value]; nan equals nothing
FilterEq(df, column, value) ==
    SelectSeq(df, LAMBDA r : r[column] # NaN /\ r[column] = value)

RECURSIVE InsertByTimestamp(_, _)
InsertByTimestamp(r, sorted) ==
    IF sorted = <<>>
    THEN <<r>>
    ELSE IF r.timestamp < Head(sorted).timestamp
    THEN <<r>> \o sorted
    ELSE <<Head(sorted)>> \o InsertByTimestamp(r, Tail(sorted))

\* df.sort_values("timestamp"); no two records share a timestamp
RECURSIVE sort_values(_)
sort_values(df) ==
    IF df = <<>>
    THEN <<>>
    ELSE InsertByTimestamp(df[Len(df)], sort_values(SubSeq(df, 1, Len(df) - 1)))

\* the change from the oldest record instead of the one before the last
LastTwoDeltaFromFirst(df_org) ==
    RatSub(df_org[Len(df_org)].overall_score, df_org[1].overall_score)

\* last_two = df_org.tail(2); iloc[1] - iloc[0] of overall_score
LastTwoDelta(df_org) ==
    LET n == Len(df_org)
    IN  RatSub(df_org[n].overall_score, df_org[n - 1].overall_score)

(* The change since the last assessment is absent (the empty sequence) or  *)
(* one number (a sequence of length one).                                  *)

\* app.py, main: the records shown under "Previous assessments"
HistoryRows(file, email, org_name) ==
    IF ~file.exists
    THEN <<>>
    ELSE IF email # ""
    THEN FilterEq(read_csv(file), "email", email)
    ELSE IF org_name # ""
    THEN FilterEq(read_csv(file), "org_name", org_name)
    ELSE read_csv(file)

\* app.py, main: the metric "Overall readiness change"
HistoryDelta(file, email, org_name) ==
    CHOOSE ret \in {IF Len(df_org) >= 2
                    THEN <<LastTwoDelta(sort_values(df_org))>>
                    ELSE <<>> :
                       df_org \in {HistoryRows(file, email, org_name)}} : TRUE

\* pdf_report.py: the style of the band badge for each band it knows
BAND_STYLES ==
    [label \in {"High risk", "Emerging", "Near-ready", "Ready"} |->
        CASE label = "High risk"  -> [colour |-> "red", label |-> label]
          [] label = "Emerging"   -> [colour |-> "orange", label |-> label]
          [] label = "Near-ready" -> [colour |-> "#FFC107", label |-> label]
          [] label = "Ready"      -> [colour |-> "green", label |-> label]]

\* pdf_report.py, build_pdf_report: the colour of the band badge,
\* BAND_STYLES.get(band_label, {"colour": colors.grey})["colour"]
BandColour(band_label) ==
    IF band_label \in DOMAIN BAND_STYLES
    THEN BAND_STYLES[band_label].colour
    ELSE "grey"

\* pdf_report.py, build_pdf_report: the change written in the report
PdfDelta(file, email) ==
    IF file.exists /\ email # ""
    THEN CHOOSE ret \in {IF Len(df_org) >= 2
                         THEN <<LastTwoDelta(sort_values(df_org))>>
                         ELSE <<>> :
                            df_org \in {FilterEq(read_csv(file), "email",
                                                 email)}} : TRUE
    ELSE <<>>

-----------------------------------------------------------------------------
(* The application as a state machine: each session runs main, and the     *)
(* steps of main that read or write docs/assessments.csv are the steps of  *)
(* the sessions.  Streamlit runs every session in a thread of its own.     *)

\* main is not running in session s
AtRest(s) ==
    session[s].pc \in {"form", "rejected", "shown"}

\* the button is pressed: validation, compute_scores, and the row of
\* store_assessment with its timestamp
Submit(s) ==
    /\ AtRest(s)
    /\ Len(log) < MaxAssessments
    /\ \E e \in Emails, resp \in FormResponses :
          IF e = ""
          THEN /\ session' = [session EXCEPT
                                 ![s] = [FreshSession EXCEPT !.pc = "rejected"]]
               /\ UNCHANGED <<assessments_csv, clock, log>>
          ELSE \E ret \in {compute_scores(resp, FormOrgType, FormIndustry)} :
               /\ session' = [session EXCEPT
                                 ![s] = [FreshSession EXCEPT
                                            !.pc = "store_read",
                                            !.email = e,
                                            !.timestamp = clock,
                                            !.overall = ret[1],
                                            !.band = ret[3][1]]]
               /\ clock' = clock + 1
               /\ log' = Append(log, [timestamp     |-> clock,
                                      email         |-> e,
                                      overall_score |-> ret[1],
                                      stored        |-> FALSE])
               /\ UNCHANGED assessments_csv
    /\ UNCHANGED evars

\* df_new, the row that store_assessment appends
NewRow(s) ==
    [timestamp     |-> session[s].timestamp,
     org_name      |-> FormOrgName,
     email         |-> session[s].email,
     overall_score |-> session[s].overall,
     band          |-> session[s].band]

\* store_assessment: the file is read and the row appended in memory
StoreRead(s) ==
    /\ session[s].pc = "store_read"
    /\ session' = [session EXCEPT
                      ![s].pc = "store_write",
                      ![s].df_all =
                          IF assessments_csv.exists
                          THEN read_csv(assessments_csv) \o <<NewRow(s)>>
                          ELSE <<NewRow(s)>>]
    /\ UNCHANGED <<assessments_csv, clock, log>>
    /\ UNCHANGED evars

\* store_assessment: the whole file is written
StoreWrite(s) ==
    /\ session[s].pc = "store_write"
    /\ assessments_csv' = to_csv(session[s].df_all)
    /\ session' = [session EXCEPT ![s].pc = "pdf", ![s].df_all = <<>>]
    /\ log' = [i \in 1..Len(log) |->
                  IF log[i].timestamp = session[s].timestamp
                  THEN [log[i] EXCEPT !.stored = TRUE]
                  ELSE log[i]]
    /\ UNCHANGED clock
    /\ UNCHANGED evars

\* build_pdf_report: the band badge and the historical trend of the report
BuildPdf(s) ==
    /\ session[s].pc = "pdf"
    /\ session' = [session EXCEPT
                      ![s].pc = "history",
                      ![s].band_colour = BandColour(session[s].band),
                      ![s].pdf_delta = PdfDelta(assessments_csv,
                                                session[s].email)]
    /\ UNCHANGED <<assessments_csv, clock, log>>
    /\ UNCHANGED evars

\* main: "Previous assessments for this organisation"
ShowHistory(s) ==
    /\ session[s].pc = "history"
    /\ session' = [session EXCEPT
                      ![s].pc = "shown",
                      ![s].section =
                          Len(HistoryRows(assessments_csv, session[s].email,
                                          FormOrgName)) > 0,
                      ![s].delta = HistoryDelta(assessments_csv,
                                                session[s].email,
                                                FormOrgName)]
    /\ UNCHANGED <<assessments_csv, clock, log>>
    /\ UNCHANGED evars

AppNext ==
    \/ \E s \in Sessions : Submit(s)
    \/ \E s \in Sessions : StoreRead(s)
    \/ \E s \in Sessions : StoreWrite(s)
    \/ \E s \in Sessions : BuildPdf(s)
    \/ \E s \in Sessions : ShowHistory(s)

\* the sessions run concurrently
AppSpec ==
    Init /\ [][AppNext]_vars

\* the button is pressed in a session while main runs in no other session
SubmitAlone(s) ==
    /\ \A other \in Sessions : AtRest(other)
    /\ Submit(s)

SeqAppNext ==
    \/ \E s \in Sessions : SubmitAlone(s)
    \/ \E s \in Sessions : StoreRead(s)
    \/ \E s \in Sessions : StoreWrite(s)
    \/ \E s \in Sessions : BuildPdf(s)
    \/ \E s \in Sessions : ShowHistory(s)

\* one session at a time
SeqAppSpec ==
    Init /\ [][SeqAppNext]_vars

-----------------------------------------------------------------------------
(* Vocabulary of the properties *)

CategorySet ==
    {CATEGORIES[i] : i \in 1..Len(CATEGORIES)}

BandLabels ==
    {"AI Ready", "Near Ready", "Emerging", "High Risk"}

\* the organisation-type groups that a text triggers, as indices of TypeGroups
MatchedTypeGroups(text) ==
    {g \in 1..Len(TypeGroups) : AnyIn(TypeGroups[g], lower(OrEmpty(text)))}

\* the sector groups that a text triggers, as indices of SectorGroups
MatchedSectorGroups(text) ==
    {g \in 1..Len(SectorGroups) : AnyIn(SectorGroups[g], lower(OrEmpty(text)))}

NoGroupMatches(t_arg, ind_arg) ==
    MatchedTypeGroups(t_arg) = {} /\ MatchedSectorGroups(ind_arg) = {}

\* the sum of f over the set S of its arguments
RECURSIVE RatSum(_, _)
RatSum(f, S) ==
    IF S = {} THEN Num(0)
    ELSE LET x == CHOOSE y \in S : TRUE
         IN  RatAdd(f[x], RatSum(f, S \ {x}))

RECURSIVE IntSum(_, _)
IntSum(f, S) ==
    IF S = {} THEN 0
    ELSE LET x == CHOOSE y \in S : TRUE
         IN  f[x] + IntSum(f, S \ {x})

InRange(x, lo, hi) ==
    RatLeq(Num(lo), x) /\ RatLeq(x, Num(hi))

\* the answered questions of category c
AnsweredIn(c) ==
    {id \in DOMAIN responses : QuestionOf(id).category = c}

\* every question answered at its maximum
AllMaximal ==
    responses = [id \in QuestionIds |->
                    IF QuestionOf(id).qtype = "likert" THEN 5 ELSE 1]

\* 0.30, 0.25, 0.20, 0.15, 0.10
BaseVector ==
    [c \in CategorySet |->
        CASE c = "Governance & Policy"                   -> Rat(3, 10)
          [] c = "Data Privacy & Protection"             -> Rat(1, 4)
          [] c = "Technical Controls & Monitoring"       -> Rat(1, 5)
          [] c = "Ethics & Societal Impact"              -> Rat(3, 20)
          [] c = "Organisational Readiness & Capability" -> Rat(1, 10)]

-----------------------------------------------------------------------------
(* Properties *)

\* C1: after compute_scores on in-domain answers, each of the five category
\* scores lies in [0,100].
C1_CategoryScoresInRange ==
    pc = "compute_scores" =>
        \A c \in CategorySet : InRange(category_scores[c], 0, 100)

\* C2: with every question answered at its maximum and an organisation type
\* and a sector that match no keyword group, every category score is 100
\* and the overall score is 100.
C2_AllMaximalScoresHundred ==
    (pc = "compute_scores" /\ AllMaximal /\ NoGroupMatches(org_type, industry))
        => /\ \A c \in CategorySet : category_scores[c] = Num(100)
           /\ overall = Num(100)

\* C3: with every question answered at its maximum and an organisation type
\* and a sector that match no keyword group, the band is "AI Ready".
C3_AllMaximalIsAIReady ==
    (pc = "compute_scores" /\ AllMaximal /\ NoGroupMatches(org_type, industry))
        => band_info[1] = "AI Ready"

C3_Witness ==
    /\ pc = "compute_scores"
    /\ AllMaximal
    /\ NoGroupMatches(org_type, industry)
    /\ org_type = AcmeLtd
    /\ band_info[1] = "AI Ready"

\* C4: after compute_scores on in-domain answers, for every organisation
\* type and sector, the overall score lies in [0,100].
C4_OverallInRange ==
    pc = "compute_scores" => InRange(overall, 0, 100)

\* C5: get_category_weights returns, without raising, a vector whose keys
\* are exactly the five categories and whose values sum to 1.
C5_WeightsSumToOne ==
    pc = "get_category_weights" =>
        /\ DOMAIN weights = CategorySet
        /\ \A c \in CategorySet : weights[c] # ZeroDivisionError
        /\ RatSum(weights, CategorySet) = Num(1)

C5_Witness ==
    /\ pc = "get_category_weights"
    /\ MatchedTypeGroups(org_type) = 1..Len(TypeGroups)
    /\ MatchedSectorGroups(industry) = 1..Len(SectorGroups)
    /\ RatSum(weights, CategorySet) = Num(1)

\* C6 as stated: some combination of matching keyword groups drives a
\* category's weight negative before the renormalisation, that is, before
\* the call there are arguments (among them a text for each of the 2^7
\* combinations of groups) on which get_category_weights does so.
C6_SomeWeightNegative ==
    pc = "idle" =>
        \E t \in OrgTypeInputs, s \in IndustryInputs :
            \E w \in {AdjustedWeights(t, s)} :
                \E c \in CategorySet : RatLt(w[c], Num(0))

\* C6 amended: under every combination of matching keyword groups every
\* category's weight before the renormalisation is at least 0 (0 itself is
\* reached), so no returned weight is negative.
C6_AdjustedWeightsNonNegative ==
    pc = "get_category_weights" =>
        \E w \in {AdjustedWeights(org_type, industry)} :
            \A c \in CategorySet :
                /\ RatGeq(w[c], Num(0))
                /\ RatGeq(weights[c], Num(0))

C6_Witness ==
    /\ pc = "get_category_weights"
    /\ MatchedTypeGroups(org_type) # {}
    /\ MatchedSectorGroups(industry) # {}
    /\ \E w \in {AdjustedWeights(org_type, industry)} :
          \E c \in CategorySet : w[c] = Num(0) /\ weights[c] = Num(0)

\* C7: when the organisation type and the sector match no keyword group
\* (None and the empty string included), get_category_weights returns the
\* base vector 0.30, 0.25, 0.20, 0.15, 0.10.
C7_NoMatchGivesBaseVector ==
    (pc = "get_category_weights" /\ NoGroupMatches(org_type, industry))
        => weights = BaseVector

C7_Witness ==
    /\ pc = "get_category_weights"
    /\ org_type = None
    /\ industry = <<>>
    /\ weights = BaseVector

\* C8: classify_band gives every score exactly one label, with thresholds
\* inclusive below: >= 80 "AI Ready", [60,80) "Near Ready", [40,60)
\* "Emerging", < 40 "High Risk", also outside [0,100].
C8_BandThresholds ==
    pc = "classify_band" =>
        LET s == overall_score
            l == band_info[1]
        IN  /\ l \in BandLabels
            /\ l = "AI Ready"   <=> RatGeq(s, Num(80))
            /\ l = "Near Ready" <=> (RatGeq(s, Num(60)) /\ RatLt(s, Num(80)))
            /\ l = "Emerging"   <=> (RatGeq(s, Num(40)) /\ RatLt(s, Num(60)))
            /\ l = "High Risk"  <=> RatLt(s, Num(40))

C8_Witness ==
    /\ pc = "classify_band"
    /\ overall_score = Rat(79999, 1000)
    /\ band_info[1] = "Near Ready"

\* C9: compute_scores gives a category the score 0 when none of its
\* questions is answered and otherwise (sum of its answered values / number
\* of its answered questions) / 4 * 100, boolean and graded answers
\* together; no error is raised on a partial or empty response set.
C9_CategoryScoreIsScaledMean ==
    pc = "compute_scores" =>
        \A c \in CategorySet :
            /\ category_scores[c] # ZeroDivisionError
            /\ category_scores[c] =
                 IF AnsweredIn(c) = {} THEN Num(0)
                 ELSE RatMul(RatDiv(Rat(IntSum(responses, AnsweredIn(c)),
                                        Cardinality(AnsweredIn(c))),
                                    Num(4)),
                             Num(100))

C9_Witness ==
    /\ pc = "compute_scores"
    /\ \E c \in CategorySet :
          /\ \E id \in AnsweredIn(c) : QuestionOf(id).qtype = "yesno"
          /\ \E id \in AnsweredIn(c) : QuestionOf(id).qtype = "likert"
          /\ \E id \in QuestionIds \ DOMAIN responses :
                QuestionOf(id).category = c
    /\ \E c \in CategorySet : AnsweredIn(c) = {}

\* C10: the overall score of compute_scores is the sum over the five
\* categories of category score * weight of get_category_weights(org_type,
\* industry), and the band is classify_band of that overall score.
C10_OverallIsWeightedSum ==
    pc = "compute_scores" =>
        /\ \E w \in {get_category_weights(org_type, industry)} :
              \E term \in {[c \in CategorySet |->
                               RatMul(category_scores[c], w[c])]} :
                 overall = RatSum(term, CategorySet)
        /\ band_info = classify_band(overall)

C10_Witness ==
    /\ pc = "compute_scores"
    /\ MatchedTypeGroups(org_type) # {}
    /\ MatchedSectorGroups(industry) # {}
    /\ \E term \in {[c \in CategorySet |->
                        RatMul(category_scores[c], BaseVector[c])]} :
          overall # RatSum(term, CategorySet)

\* the overall score that compute_scores gives the response set resp under
\* the weights w
OverallOf(resp, w) ==
    CHOOSE ov \in
        UNION {{WeightedOverall(scores, w, 1, Num(0)) :
                  scores \in {AverageScores(agg.totals, agg.counts)}} :
               agg \in {Aggregate(resp, 1, [cat \in CategorySet |-> Num(0)],
                                  [cat \in CategorySet |-> 0])}} : TRUE

\* the category-score map with every score equal to x
Uniform(x) ==
    [c \in CategorySet |-> Num(x)]

\* C11: with an empty response set, for every organisation type and sector,
\* all five category scores are 0, the overall score is 0, the band is
\* "High Risk" and generate_recommendations gives every category the
\* urgent (score < 40) text.
C11_EmptyResponsesAreHighRisk ==
    (pc = "recommended" /\ responses = <<>>)
        => /\ category_scores = Uniform(0)
           /\ overall = Num(0)
           /\ band_info[1] = "High Risk"
           /\ recs = [c \in CategorySet |-> HighRiskText]

C11_Witness ==
    /\ pc = "recommended"
    /\ responses = <<>>
    /\ MatchedTypeGroups(org_type) # {}
    /\ MatchedSectorGroups(industry) # {}
    /\ recs = [c \in CategorySet |-> HighRiskText]

\* C12: generate_recommendations returns one recommendation per category of
\* its input, chosen from that category's own score alone: >= 80 maintain,
\* [60,80) strengthen, [40,60) prioritise basics, < 40 high risk.
C12_RecommendationByOwnScore ==
    pc \in {"generate_recommendations", "recommended"} =>
        /\ DOMAIN recs = DOMAIN rec_input
        /\ \A c \in DOMAIN rec_input :
              LET x == rec_input[c]
              IN  /\ recs[c] = MaintainText <=> RatGeq(x, Num(80))
                  /\ recs[c] = StrengthenText
                        <=> (RatGeq(x, Num(60)) /\ RatLt(x, Num(80)))
                  /\ recs[c] = PrioritiseText
                        <=> (RatGeq(x, Num(40)) /\ RatLt(x, Num(60)))
                  /\ recs[c] = HighRiskText <=> RatLt(x, Num(40))

C12_Witness ==
    /\ pc = "generate_recommendations"
    /\ DOMAIN rec_input = CategorySet
    /\ {recs[c] : c \in CategorySet}
          = {MaintainText, StrengthenText, PrioritiseText, HighRiskText}
    /\ rec_input[CATEGORIES[1]] = Num(80)
    /\ rec_input[CATEGORIES[2]] = Rat(79999, 1000)

\* C13: under every weight vector that get_category_weights returns,
\* raising one category's score with the other four fixed never lowers the
\* weighted overall score; and raising one answer of a response set never
\* lowers the overall score of compute_scores.
C13_OverallIsMonotonic ==
    /\ pc = "get_category_weights" =>
          \A c \in CategorySet, x \in {0, 50} :
              RatLeq(WeightedOverall(Uniform(x), weights, 1, Num(0)),
                     WeightedOverall([Uniform(x) EXCEPT ![c] = Num(100)],
                                     weights, 1, Num(0)))
    /\ pc = "compute_scores" =>
          \E w \in {ScoringWeights(org_type, industry)} :
              \A id \in DOMAIN responses :
                  \A v \in AnswerDomain(id) :
                      v > responses[id] =>
                          RatLeq(overall,
                                 OverallOf([responses EXCEPT ![id] = v], w))

C13_Witness ==
    /\ pc = "compute_scores"
    /\ MatchedTypeGroups(org_type) # {}
    /\ MatchedSectorGroups(industry) # {}
    /\ \E id \in DOMAIN responses :
          /\ responses[id] < 5
          /\ QuestionOf(id).qtype = "likert"
          /\ \E w \in {ScoringWeights(org_type, industry)} :
                /\ w[QuestionOf(id).category] = Num(0)
                /\ OverallOf([responses EXCEPT ![id] = 5], w) = overall

\* C14: for organisation type "Startup" and sector "Healthcare" exactly the
\* startup group and the healthcare group apply; the weights before the
\* normalisation are 0.27, 0.31, 0.20, 0.17, 0.10 (sum 1.05) and the
\* returned vector is each of them divided by 1.05, summing to 1.
C14_StartupHealthcareWeights ==
    (pc = "get_category_weights" /\ org_type = StartupText
        /\ industry = IndustryOptions[1])
        => /\ MatchedTypeGroups(org_type) = {2}
           /\ MatchedSectorGroups(industry) = {1}
           /\ \E w \in {AdjustedWeights(org_type, industry)} :
                 /\ w = [c \in CategorySet |->
                           CASE c = CATEGORIES[1] -> Rat(27, 100)
                             [] c = CATEGORIES[2] -> Rat(31, 100)
                             [] c = CATEGORIES[3] -> Rat(20, 100)
                             [] c = CATEGORIES[4] -> Rat(17, 100)
                             [] c = CATEGORIES[5] -> Rat(10, 100)]
                 /\ RatSum(w, CategorySet) = Rat(105, 100)
                 /\ \A c \in CategorySet :
                       weights[c] = RatDiv(w[c], Rat(105, 100))
           /\ RatSum(weights, CategorySet) = Num(1)

C14_Witness ==
    /\ pc = "get_category_weights"
    /\ org_type = StartupText
    /\ industry = IndustryOptions[1]
    /\ weights[CATEGORIES[2]] = Rat(31, 105)

\* C17: a category-score map with a key that is not one of the five
\* categories is signalled as invalid input, so generate_recommendations
\* returns recommendations only for maps whose keys are categories.
C17_MalformedMapIsRejected ==
    pc = "generate_recommendations" => DOMAIN rec_input \subseteq CategorySet

\* the records of df_org in the order of their timestamps, as positions of
\* df_org: position i is the k-th from the end when k - 1 records are later
LaterThan(df_org, i) ==
    {j \in 1..Len(df_org) : df_org[j].timestamp > df_org[i].timestamp}

\* the trend of a history: absent below two records, otherwise the overall
\* score of the most recent record minus that of the record just before it
TrendOf(df_org) ==
    IF Len(df_org) < 2
    THEN <<>>
    ELSE LET last   == CHOOSE i \in 1..Len(df_org) :
                           Cardinality(LaterThan(df_org, i)) = 0
             before == CHOOSE i \in 1..Len(df_org) :
                           Cardinality(LaterThan(df_org, i)) = 1
         IN  <<RatSub(df_org[last].overall_score,
                      df_org[before].overall_score)>>

\* C15: whenever the application or the report computes the trend of the
\* history of one identity, the result is absent if that history has fewer
\* than two records, and otherwise it is the overall score of the record
\* with the latest timestamp minus the overall score of the record with the
\* latest timestamp before it, whatever the order of the file and whatever
\* older records there are.
C15_DeltaIsLastMinusPrevious ==
    [][\A s \in Sessions :
          /\ (session[s].pc = "history" /\ session'[s].pc = "shown")
                => session'[s].delta =
                      TrendOf(HistoryRows(assessments_csv, session[s].email,
                                          FormOrgName))
          /\ (session[s].pc = "pdf" /\ session'[s].pc = "history")
                => session'[s].pdf_delta =
                      TrendOf(FilterEq(read_csv(assessments_csv), "email",
                                       session[s].email))]_vars

\* a session shows a change computed from a file that is not in the order
\* of its timestamps and holds three records of the session's identity,
\* the oldest with another score than the one before the last
C15_Witness ==
    \E s \in Sessions :
        /\ session[s].pc = "shown"
        /\ session[s].delta # <<>>
        /\ session[s].pdf_delta = session[s].delta
        /\ \E df_org \in {HistoryRows(assessments_csv, session[s].email,
                                      FormOrgName)} :
              /\ Len(df_org) = 3
              /\ \E i \in 1..2 : df_org[i].timestamp > df_org[i + 1].timestamp
              /\ session[s].delta = TrendOf(df_org)
              /\ \E sorted \in {sort_values(df_org)} :
                    sorted[1].overall_score # sorted[2].overall_score

\* the assessments whose store_assessment has returned, as positions of log
Completed ==
    {i \in 1..Len(log) : log[i].stored}

\* C16: a call of store_assessment that returns leaves the file with the
\* records it had, unchanged and in their order, followed by the one record
\* of the call, and the file then holds as many records as calls have
\* returned.
C16_StoreAppendsOneRecord ==
    [][\A s \in Sessions :
          (session[s].pc = "store_write" /\ session'[s].pc = "pdf")
             => /\ assessments_csv'.rows =
                       Append(assessments_csv.rows, NewRow(s))
                /\ Len(assessments_csv'.rows) = Cardinality(Completed')]_vars

\* C19: every assessment whose store_assessment has returned has its record
\* in the file, whatever the interleaving of the sessions.
C19_NoRecordIsLost ==
    \A i \in Completed :
        \E k \in 1..Len(assessments_csv.rows) :
            assessments_csv.rows[k].timestamp = log[i].timestamp

\* the assessments submitted under an email, in the order of submission
SubmittedUnder(email) ==
    SelectSeq(log, LAMBDA entry : entry.email = email)

\* C20: when a session shows the history after its assessment, the first
\* assessment under its email shows no change, and a later one shows the
\* overall score just computed minus the overall score of the assessment
\* submitted before it under the same email.
C20_DeltaAgainstPreviousOfSameEmail ==
    [][\A s \in Sessions :
          (session[s].pc = "history" /\ session'[s].pc = "shown")
             => \E mine \in {SubmittedUnder(session[s].email)} :
                   session'[s].delta =
                       IF Len(mine) < 2
                       THEN <<>>
                       ELSE <<RatSub(session[s].overall,
                                     mine[Len(mine) - 1].overall_score)>>]_vars

\* the sector group that each option of the "Primary sector" select box
\* names, as an index of SectorGroups, in the order of IndustryOptions; 0
\* for an option that names none
NamedSectorGroup ==
    <<1, 2, 0, 4, 3, 5, 0, 0>>

\* C21: a sector taken from the select box triggers no sector group but the
\* one it names, and "Retail / e-commerce" with an organisation type that
\* matches nothing gives the base weights with the retail adjustment only.
C21_OptionTriggersOnlyItsGroup ==
    pc = "get_category_weights" =>
        \A i \in 1..Len(IndustryOptions) :
            industry = IndustryOptions[i] =>
                /\ MatchedSectorGroups(industry)
                       \subseteq {NamedSectorGroup[i]}
                /\ (i = 5 /\ MatchedTypeGroups(org_type) = {})
                       => weights = Adjust(BaseWeights, SectorDeltas[3])

\* C22, the inputs: before the call, every combination of the two
\* organisation-type groups and the five sector groups is the combination
\* matched by some arguments of the exploration.
\* C22, the result: the adjusted weights sum to 1.05 when the startup group
\* matches and to 1.00 when it does not, the sum is positive, and the vector
\* returned is the adjusted vector divided by that sum.
C22_SumIsOneOrOnePointZeroFive ==
    /\ pc = "idle" =>
          \A T \in SUBSET (1..Len(TypeGroups)),
             S \in SUBSET (1..Len(SectorGroups)) :
              /\ \E t \in OrgTypeInputs : MatchedTypeGroups(t) = T
              /\ \E ind \in IndustryInputs : MatchedSectorGroups(ind) = S
    /\ pc = "get_category_weights" =>
          \E w \in {AdjustedWeights(org_type, industry)} :
              \E total \in {RatSum(w, CategorySet)} :
                  /\ total = IF 2 \in MatchedTypeGroups(org_type)
                             THEN Rat(105, 100)
                             ELSE Num(1)
                  /\ RatLt(Num(0), total)
                  /\ weights = [c \in CategorySet |-> RatDiv(w[c], total)]

\* every one of the seven groups matches, the sum is 1.05
C22_Witness ==
    /\ pc = "get_category_weights"
    /\ MatchedTypeGroups(org_type) = {1, 2}
    /\ MatchedSectorGroups(industry) = {1, 2, 3, 4, 5}
    /\ \E w \in {AdjustedWeights(org_type, industry)} :
          /\ RatSum(w, CategorySet) = Rat(105, 100)
          /\ weights # w

\* C23: the overall score returned by compute_scores is at least the
\* smallest and at most the largest of the five category scores.
C23_OverallBetweenExtremes ==
    pc = "compute_scores" =>
        /\ \E c \in CategorySet : RatLeq(category_scores[c], overall)
        /\ \E c \in CategorySet : RatLeq(overall, category_scores[c])

\* the startup group matches, the category scores differ and the overall
\* score is strictly between the smallest and the largest of them
C23_Witness ==
    /\ pc = "compute_scores"
    /\ 2 \in MatchedTypeGroups(org_type)
    /\ \E c \in CategorySet : RatLt(category_scores[c], overall)
    /\ \E c \in CategorySet : RatLt(overall, category_scores[c])

\* C25: the band of every report that build_pdf_report has laid out is a key
\* of BAND_STYLES, and the badge has the colour BAND_STYLES gives that band.
C25_BadgeHasBandColour ==
    \A s \in Sessions :
        session[s].pc \in {"history", "shown"} =>
            /\ session[s].band \in DOMAIN BAND_STYLES
            /\ session[s].band_colour = BAND_STYLES[session[s].band].colour

C26_CatalogIsWellFormed ==
    pc = "compute_scores" =>
        /\ \A i, j \in 1..Len(QUESTIONS) :
               i # j => QUESTIONS[i].id # QUESTIONS[j].id
        /\ \A i \in 1..Len(QUESTIONS) :
               /\ QUESTIONS[i].category \in CategorySet
               /\ QUESTIONS[i].qtype \in {"likert", "yesno"}
        /\ Cardinality(CategorySet) = 5
        /\ \A c \in CategorySet :
               \E i \in 1..Len(QUESTIONS) : QUESTIONS[i].category = c
        /\ \A i \in 1..Len(QUESTIONS) :
               QUESTIONS[i].id \in DOMAIN responses
                   => QUESTIONS[i].category \in DOMAIN category_scores

\* compute_scores has run on a response set that answers every question of
\* the catalog, and every category has a positive score
C26_Witness ==
    /\ pc = "compute_scores"
    /\ DOMAIN responses = QuestionIds
    /\ \A c \in CategorySet : RatLt(Num(0), category_scores[c])

=============================================================================
